---- MODULE Spec2Model ----
(***************************************************************************)
(* The netService of starx (src/network/net.go): the agent and acceptor    *)
(* registries, the message router (Push, Response, Broadcast, Multicast)   *)
(* and session close with its callbacks, as a state machine of goroutines  *)
(* that call the service concurrently.                                     *)
(*                                                                         *)
(* Every goroutine is at a position (pc) of one call.  A step is one of    *)
(* the call's critical sections or unsynchronised accesses, so that every  *)
(* interleaving the five RWMutexes allow is a behaviour of the model.      *)
(***************************************************************************)
EXTENDS Integers, Sequences, FiniteSets, TLC

\* ------------------------------------------------------------------ bounds
NumCreators == 2        \* goroutines of the createAgent stress run (M)
CallsPerCreator == 2    \* createAgent calls of each of them (C)
MaxAgents == 2          \* createAgent calls in the other specifications
MaxAcceptors == 2       \* createAcceptor calls
MaxCb == 2              \* registered close callbacks
MaxLastID == 1          \* largest request id a session carries
MaxIds == 2             \* length of a Multicast id list
MixAgents == 1          \* createAgent calls in the mix of operations
MixAcceptors == 1       \* createAcceptor calls in the mix
MixCb == 1              \* sessionClosedCallback calls in the mix

\* The goroutines of the general specifications.
Threads == {"g1", "g2"}
Creators == 1 .. NumCreators

\* The callbacks a subscriber may register: nil, or one of two functions.
Callbacks == {"nil", "cb1", "cb2"}

\* A callback that, when invoked, calls OnSessionClosed to register another.
Registering == {"reg"}

LockNames == {"agentUidLock", "agentMapLock", "acceptorUidLock",
              "acceptorMapLock", "sessionCloseCbLock"}

VARIABLES
    IsFrontend,      \* appConfig.IsFrontend
    agentUid,        \* netService.agentUid
    agentMap,        \* netService.agentMap: key -> id of the agent it holds
    acceptorUid,     \* netService.acceptorUid
    acceptorMap,     \* netService.acceptorMap: key -> id of the acceptor
    lock,            \* the five sync.RWMutex: writer and readers
    sessionCloseCb,  \* netService.sessionCloseCb
    sess,            \* the sessions of the agents handed out: id -> LastID
    status,          \* the status of each agent handed out: id -> status
    th,              \* each goroutine: its call, position and locals
    fatal,           \* the Go runtime ended the process (concurrent map access)
    issued,          \* history: the ids handed out, per namespace, in order
    created,         \* history: the ids inserted into each mapping
    removed,         \* history: the ids deleted from each mapping
    calls            \* history: createAgent calls started, per goroutine

vars == <<IsFrontend, agentUid, agentMap, acceptorUid, acceptorMap, lock,
          sessionCloseCb, sess, status, th, fatal, issued, created, removed,
          calls>>

\* ----------------------------------------------------------------- helpers
Idle ==
    [op |-> "idle", pc |-> "idle", id |-> 0, sid |-> 0, n |-> 0, i |-> 0,
     ids |-> <<>>, seen |-> {}, snap |-> {}, ev |-> <<>>, cb |-> "nil",
     ret |-> "none"]

FreeLock == [w |-> {}, r |-> {}]

\* sync.RWMutex: Lock waits for the writer and all readers, RLock for the
\* writer.  (Go also makes RLock wait for a writer that is waiting; leaving
\* that out only adds interleavings.)  The mutex is not reentrant: a
\* goroutine that holds the read side waits in Lock like any other.
CanLockDespiteReaders(l) == lock[l].w = {}
CanLock(l) == lock[l].w = {} /\ lock[l].r = {}
CanRLock(l) == lock[l].w = {}
Locked(l, t) == [lock EXCEPT ![l].w = {t}]
UnlockForgotten(l, t) == lock
Unlocked(l, t) == [lock EXCEPT ![l].w = @ \ {t}]
RLocked(l, t) == [lock EXCEPT ![l].r = @ \cup {t}]
RUnlocked(l, t) == [lock EXCEPT ![l].r = @ \ {t}]

\* m[k] = v
MapPut(m, k, v) == [x \in DOMAIN m \cup {k} |-> IF x = k THEN v ELSE m[x]]
\* delete(m, k)
MapDelete(m, k) == [x \in DOMAIN m \ {k} |-> m[x]]

\* Go's nil pointer, as the id of no agent and no acceptor.
Nil == 0

\* A goroutine moves on in its call.
Goto(t, fields) ==
    th' = [th EXCEPT ![t] = [f \in DOMAIN @ |->
                                IF f \in DOMAIN fields THEN fields[f] ELSE @[f]]]

\* ------------------------------------------------------------- createAgent
\* agentUid++ / acceptorUid++ (uint64; the bounds stay far below 2^64)
NextUidStuck(u) == u
NextUid(u) == u + 1

\* id := net.agentUid (m is the mapping of the namespace, which it does not read)
ReserveIdFromLen(uid, m) == Cardinality(DOMAIN m) + 1
ReserveId(uid, m) == uid

\* net.agentUidLock.Lock()
CreateAgentLockUid(t) ==
    /\ ~fatal
    /\ th[t].pc = "idle"
    /\ CanLock("agentUidLock")
    /\ lock' = Locked("agentUidLock", t)
    /\ Goto(t, [op |-> "createAgent", pc |-> "uidLocked"])
    /\ UNCHANGED <<IsFrontend, agentUid, agentMap, acceptorUid, acceptorMap,
                   sessionCloseCb, sess, status, fatal, issued, created, removed>>

\* id := net.agentUid; net.agentUid++; net.agentUidLock.Unlock()
CreateAgentReserve(t) ==
    /\ ~fatal
    /\ th[t].op = "createAgent" /\ th[t].pc = "uidLocked"
    /\ agentUid' = NextUid(agentUid)
    /\ lock' = Unlocked("agentUidLock", t)
    /\ issued' = [issued EXCEPT !.agent = Append(@, ReserveId(agentUid, agentMap))]
    /\ Goto(t, [pc |-> "reserved", id |-> ReserveId(agentUid, agentMap)])
    /\ UNCHANGED <<IsFrontend, agentMap, acceptorUid, acceptorMap,
                   sessionCloseCb, sess, status, fatal, created, removed, calls>>

\* a := newAgent(id, conn); net.agentMapLock.Lock()
CreateAgentLockMap(t) ==
    /\ ~fatal
    /\ th[t].op = "createAgent" /\ th[t].pc = "reserved"
    /\ CanLock("agentMapLock")
    /\ lock' = Locked("agentMapLock", t)
    /\ Goto(t, [pc |-> "mapLocked"])
    /\ UNCHANGED <<IsFrontend, agentUid, agentMap, acceptorUid, acceptorMap,
                   sessionCloseCb, sess, status, fatal, issued, created, removed, calls>>

\* net.agentMap[id] = a, where a.id = id
InsertWrongKey(m, id) == MapPut(m, 1, id)
InsertAgent(m, id) == MapPut(m, id, id)

\* net.agentMap[id] = a; net.agentMapLock.Unlock(); return a
CreateAgentInsert(t) ==
    /\ ~fatal
    /\ th[t].op = "createAgent" /\ th[t].pc = "mapLocked"
    /\ agentMap' = InsertAgent(agentMap, th[t].id)
    /\ lock' = Unlocked("agentMapLock", t)
    /\ sess' = MapPut(sess, th[t].id, 0)
    /\ status' = MapPut(status, th[t].id, "start")
    /\ created' = [created EXCEPT !.agent = @ \cup {th[t].id}]
    /\ Goto(t, [pc |-> "ret", ret |-> "agent"])
    /\ UNCHANGED <<IsFrontend, agentUid, acceptorUid, acceptorMap,
                   sessionCloseCb, fatal, issued, removed, calls>>

\* getAgent(sid): if a, ok := net.agentMap[sid]; ok && a != nil
GetAgentNoOkCheck(m, sid) == [a |-> sid, err |-> FALSE]
GetAgent(m, sid) ==
    IF sid \in DOMAIN m /\ m[sid] # Nil
    THEN [a |-> m[sid], err |-> FALSE]
    ELSE [a |-> Nil, err |-> TRUE]

\* ---------------------------------------------------------- createAcceptor
\* net.acceptorUidLock.Lock()
CreateAcceptorLockUid(t) ==
    /\ ~fatal
    /\ th[t].pc = "idle"
    /\ CanLock("acceptorUidLock")
    /\ lock' = Locked("acceptorUidLock", t)
    /\ Goto(t, [op |-> "createAcceptor", pc |-> "uidLocked"])
    /\ UNCHANGED <<IsFrontend, agentUid, agentMap, acceptorUid, acceptorMap,
                   sessionCloseCb, sess, status, fatal, issued, created, removed>>

\* id := net.acceptorUid; net.acceptorUid++; net.acceptorUidLock.Unlock()
CreateAcceptorReserve(t) ==
    /\ ~fatal
    /\ th[t].op = "createAcceptor" /\ th[t].pc = "uidLocked"
    /\ acceptorUid' = NextUid(acceptorUid)
    /\ lock' = Unlocked("acceptorUidLock", t)
    /\ issued' = [issued EXCEPT !.acceptor =
                                   Append(@, ReserveId(acceptorUid, acceptorMap))]
    /\ Goto(t, [pc |-> "reserved", id |-> ReserveId(acceptorUid, acceptorMap)])
    /\ UNCHANGED <<IsFrontend, agentUid, agentMap, acceptorMap,
                   sessionCloseCb, sess, status, fatal, created, removed, calls>>

\* a := newAcceptor(id, conn); net.acceptorMapLock.Lock()
CreateAcceptorLockMap(t) ==
    /\ ~fatal
    /\ th[t].op = "createAcceptor" /\ th[t].pc = "reserved"
    /\ CanLock("acceptorMapLock")
    /\ lock' = Locked("acceptorMapLock", t)
    /\ Goto(t, [pc |-> "mapLocked"])
    /\ UNCHANGED <<IsFrontend, agentUid, agentMap, acceptorUid, acceptorMap,
                   sessionCloseCb, sess, status, fatal, issued, created, removed, calls>>

\* net.acceptorMap[id] = a; net.acceptorMapLock.Unlock(); return a
CreateAcceptorInsert(t) ==
    /\ ~fatal
    /\ th[t].op = "createAcceptor" /\ th[t].pc = "mapLocked"
    /\ acceptorMap' = MapPut(acceptorMap, th[t].id, th[t].id)
    /\ lock' = Unlocked("acceptorMapLock", t)
    /\ created' = [created EXCEPT !.acceptor = @ \cup {th[t].id}]
    /\ Goto(t, [pc |-> "ret", ret |-> "acceptor"])
    /\ UNCHANGED <<IsFrontend, agentUid, agentMap, acceptorUid,
                   sessionCloseCb, sess, status, fatal, issued, removed, calls>>

\* The acceptors createAcceptor has returned to its callers.
AcceptorsHandedOut == created.acceptor

\* ------------------------------------------------------ getAgent, getAcceptor
\* getAcceptor(sid): if rs, ok := net.acceptorMap[sid]; ok && rs != nil
GetAcceptor(m, sid) ==
    IF sid \in DOMAIN m /\ m[sid] # Nil
    THEN [a |-> m[sid], err |-> FALSE]
    ELSE [a |-> Nil, err |-> TRUE]

\* What a lookup hands back: the entry and a nil error, or nil and an error.
LookupRet(r) == IF r.err THEN "NotFound" ELSE "found"

\* getAgent(sid): one read of agentMap, under no lock.
GetAgentCall(t, sid) ==
    /\ ~fatal
    /\ th[t].pc = "idle"
    /\ LET r == GetAgent(agentMap, sid)
       IN  Goto(t, [op |-> "getAgent", pc |-> "ret", sid |-> sid,
                    id |-> r.a, ret |-> LookupRet(r)])
    /\ UNCHANGED <<IsFrontend, agentUid, agentMap, acceptorUid, acceptorMap,
                   lock, sessionCloseCb, sess, status, fatal, issued, created, removed,
                   calls>>

\* getAcceptor(sid): one read of acceptorMap, under no lock.
GetAcceptorCall(t, sid) ==
    /\ ~fatal
    /\ th[t].pc = "idle"
    /\ LET r == GetAcceptor(acceptorMap, sid)
       IN  Goto(t, [op |-> "getAcceptor", pc |-> "ret", sid |-> sid,
                    id |-> r.a, ret |-> LookupRet(r)])
    /\ UNCHANGED <<IsFrontend, agentUid, agentMap, acceptorUid, acceptorMap,
                   lock, sessionCloseCb, sess, status, fatal, issued, created, removed,
                   calls>>

\* Another goroutine is inside a write of the mapping that lock `l` guards.
WriterActive(l, t) == lock[l].w # {} /\ lock[l].w # {t}

\* A read of a mapping under no lock (getAgent, getAcceptor, and the range
\* loops of Broadcast, Multicast and heartbeat) that overlaps another
\* goroutine's write is a data race: the read either sees the mapping before
\* or after the write (the steps above), or the runtime detects it and ends
\* the process ("fatal error: concurrent map read and map write").
RaceFatal(t) ==
    /\ ~fatal
    /\ \/ th[t].pc = "idle" /\ \E l \in {"agentMapLock", "acceptorMapLock"} :
                                   WriterActive(l, t)
       \/ th[t].pc \in {"scan", "mscan", "hscan"}
            /\ WriterActive("agentMapLock", t)
    /\ fatal' = TRUE
    /\ UNCHANGED <<IsFrontend, agentUid, agentMap, acceptorUid, acceptorMap,
                   lock, sessionCloseCb, sess, status, th, issued, created, removed,
                   calls>>

\* ------------------------------------------------------------ closeSession
\* net.sessionCloseCbLock.RLock(); the range over net.sessionCloseCb begins
CloseSessionRLockCb(t, sid) ==
    /\ ~fatal
    /\ th[t].pc = "idle"
    /\ sid \in DOMAIN sess
    /\ CanRLock("sessionCloseCbLock")
    /\ lock' = RLocked("sessionCloseCbLock", t)
    /\ Goto(t, [op |-> "closeSession", pc |-> "cbLoop", sid |-> sid,
                n |-> Len(sessionCloseCb), i |-> 1])
    /\ UNCHANGED <<IsFrontend, agentUid, agentMap, acceptorUid, acceptorMap,
                   sessionCloseCb, sess, status, fatal, issued, created, removed, calls>>

\* if cb != nil { cb(session) }: what one entry of the list adds to the
\* callback invocations of this close
InvokeOtherSession(cb, sid) == IF cb = "nil" THEN <<>> ELSE <<<<cb, sid + 1>>>>
Invoke(cb, sid) == IF cb = "nil" THEN <<>> ELSE <<<<cb, sid>>>>

\* for _, cb := range net.sessionCloseCb: the next index after index i
NextCbIndexSkipOne(i) == i + 2
NextCbIndex(i) == i + 1

\* for _, cb := range net.sessionCloseCb: the loop is over after the last of
\* the n entries
CbLoopOverAnyTime(i, n) == TRUE
CbLoopOver(i, n) == i > n

\* One iteration of the range loop, for an entry that is nil or returns.
CloseSessionCallback(t) ==
    /\ ~fatal
    /\ th[t].op = "closeSession" /\ th[t].pc = "cbLoop"
    /\ th[t].i <= th[t].n
    /\ sessionCloseCb[th[t].i] \notin Registering
    /\ Goto(t, [ev |-> th[t].ev \o Invoke(sessionCloseCb[th[t].i], th[t].sid),
                i |-> NextCbIndex(th[t].i)])
    /\ UNCHANGED <<IsFrontend, agentUid, agentMap, acceptorUid, acceptorMap,
                   lock, sessionCloseCb, sess, status, fatal, issued, created, removed,
                   calls>>

\* if appConfig.IsFrontend { the removal and the dump }: where closeSession
\* goes after its callbacks
AfterCallbacksAlwaysRemove(frontend) == "wantMap"
AfterCallbacks(frontend) == IF frontend THEN "wantMap" ELSE "ret"

\* cb(session) for an entry that registers a callback: the goroutine is now
\* inside the callback, about to call sessionClosedCallback, with the read
\* side of sessionCloseCbLock still held.
CloseSessionCallbackRegisters(t) ==
    /\ ~fatal
    /\ th[t].op = "closeSession" /\ th[t].pc = "cbLoop"
    /\ th[t].i <= th[t].n
    /\ sessionCloseCb[th[t].i] \in Registering
    /\ Goto(t, [pc |-> "inCb",
                ev |-> th[t].ev \o Invoke(sessionCloseCb[th[t].i], th[t].sid)])
    /\ UNCHANGED <<IsFrontend, agentUid, agentMap, acceptorUid, acceptorMap,
                   lock, sessionCloseCb, sess, status, fatal, issued, created,
                   removed, calls>>

\* net.sessionCloseCbLock.RUnlock(); if appConfig.IsFrontend { ... }
CloseSessionRUnlockCb(t) ==
    /\ ~fatal
    /\ th[t].op = "closeSession" /\ th[t].pc = "cbLoop"
    /\ CbLoopOver(th[t].i, th[t].n)
    /\ lock' = RUnlocked("sessionCloseCbLock", t)
    /\ Goto(t, [pc |-> AfterCallbacks(IsFrontend)])
    /\ UNCHANGED <<IsFrontend, agentUid, agentMap, acceptorUid, acceptorMap,
                   sessionCloseCb, sess, status, fatal, issued, created, removed, calls>>

\* net.agentMapLock.Lock()
CloseSessionLockMap(t) ==
    /\ ~fatal
    /\ th[t].op = "closeSession" /\ th[t].pc = "wantMap"
    /\ CanLock("agentMapLock")
    /\ lock' = Locked("agentMapLock", t)
    /\ Goto(t, [pc |-> "mapLocked"])
    /\ UNCHANGED <<IsFrontend, agentUid, agentMap, acceptorUid, acceptorMap,
                   sessionCloseCb, sess, status, fatal, issued, created, removed, calls>>

\* if agent, ok := net.agentMap[id]; ok && agent != nil { delete(net.agentMap, id) }
DeleteAgentAndTheRest(m, id) ==
    IF id \in DOMAIN m /\ m[id] # Nil THEN <<>> ELSE m
DeleteAgent(m, id) ==
    IF id \in DOMAIN m /\ m[id] # Nil THEN MapDelete(m, id) ELSE m

\* The delete under the lock, then net.agentMapLock.Unlock()
CloseSessionDelete(t) ==
    /\ ~fatal
    /\ th[t].op = "closeSession" /\ th[t].pc = "mapLocked"
    /\ agentMap' = DeleteAgent(agentMap, th[t].sid)
    /\ removed' = [removed EXCEPT !.agent = @ \cup {th[t].sid}]
    /\ lock' = Unlocked("agentMapLock", t)
    /\ Goto(t, [pc |-> "wantDump"])
    /\ UNCHANGED <<IsFrontend, agentUid, acceptorUid, acceptorMap,
                   sessionCloseCb, sess, status, fatal, issued, created, calls>>

\* dumpAgents(): net.agentMapLock.RLock(), called at the end of closeSession
\* (on defaultNetService, the one service of the package, so it is net) or
\* by a goroutine of its own
DumpAgentsRLock(t) ==
    /\ ~fatal
    /\ <<th[t].op, th[t].pc>> \in {<<"closeSession", "wantDump">>,
                                    <<"dumpAgents", "idle">>}
    /\ CanRLock("agentMapLock")
    /\ lock' = RLocked("agentMapLock", t)
    /\ Goto(t, [pc |-> "dumping"])
    /\ UNCHANGED <<IsFrontend, agentUid, agentMap, acceptorUid, acceptorMap,
                   sessionCloseCb, sess, status, fatal, issued, created, removed, calls>>

\* The count and the sessions are logged; the deferred RUnlock(); return
DumpAgentsLog(t) ==
    /\ ~fatal
    /\ th[t].op \in {"closeSession", "dumpAgents"} /\ th[t].pc = "dumping"
    /\ lock' = RUnlocked("agentMapLock", t)
    /\ Goto(t, [pc |-> "ret", seen |-> DOMAIN agentMap])
    /\ UNCHANGED <<IsFrontend, agentUid, agentMap, acceptorUid, acceptorMap,
                   sessionCloseCb, sess, status, fatal, issued, created, removed, calls>>

\* ---------------------------------------------------------- removeAcceptor
\* net.acceptorMapLock.Lock()
RemoveAcceptorLock(t, id) ==
    /\ ~fatal
    /\ th[t].pc = "idle"
    /\ id \in AcceptorsHandedOut
    /\ CanLock("acceptorMapLock")
    /\ lock' = Locked("acceptorMapLock", t)
    /\ Goto(t, [op |-> "removeAcceptor", pc |-> "mapLocked", id |-> id])
    /\ UNCHANGED <<IsFrontend, agentUid, agentMap, acceptorUid, acceptorMap,
                   sessionCloseCb, sess, status, fatal, issued, created, removed, calls>>

\* delete(net.acceptorMap, a.id): unconditional, a no-op for an absent key
DeleteAcceptorUpTo(m, id) == [x \in {k \in DOMAIN m : k > id} |-> m[x]]
DeleteAcceptor(m, id) == MapDelete(m, id)

\* delete(net.acceptorMap, a.id); net.acceptorMapLock.Unlock()
RemoveAcceptorDelete(t) ==
    /\ ~fatal
    /\ th[t].op = "removeAcceptor" /\ th[t].pc = "mapLocked"
    /\ acceptorMap' = DeleteAcceptor(acceptorMap, th[t].id)
    /\ removed' = [removed EXCEPT !.acceptor = @ \cup {th[t].id}]
    /\ lock' = Unlocked("acceptorMapLock", t)
    /\ Goto(t, [pc |-> "ret"])
    /\ UNCHANGED <<IsFrontend, agentUid, agentMap, acceptorUid,
                   sessionCloseCb, sess, status, fatal, issued, created, calls>>

\* --------------------------------------------------- sessionClosedCallback
\* net.sessionCloseCbLock.Lock(), called by a goroutine outside any call or
\* from inside a close callback (OnSessionClosed)
SessionClosedCallbackLock(t, cb) ==
    /\ ~fatal
    /\ th[t].pc \in {"idle", "inCb"}
    /\ CanLock("sessionCloseCbLock")
    /\ lock' = Locked("sessionCloseCbLock", t)
    /\ Goto(t, IF th[t].pc = "idle"
               THEN [op |-> "sessionClosedCallback", pc |-> "cbLocked",
                     cb |-> cb]
               ELSE [pc |-> "cbLockedInCb", cb |-> cb])
    /\ UNCHANGED <<IsFrontend, agentUid, agentMap, acceptorUid, acceptorMap,
                   sessionCloseCb, sess, status, fatal, issued, created,
                   removed, calls>>

\* net.sessionCloseCb = append(net.sessionCloseCb, cb); the deferred Unlock();
\* the return, to the caller or into the callback and so to the loop
SessionClosedCallbackAppend(t) ==
    /\ ~fatal
    /\ th[t].pc \in {"cbLocked", "cbLockedInCb"}
    /\ sessionCloseCb' = Append(sessionCloseCb, th[t].cb)
    /\ lock' = Unlocked("sessionCloseCbLock", t)
    /\ Goto(t, IF th[t].pc = "cbLocked"
               THEN [pc |-> "ret"]
               ELSE [pc |-> "cbLoop", i |-> NextCbIndex(th[t].i)])
    /\ UNCHANGED <<IsFrontend, agentUid, agentMap, acceptorUid, acceptorMap,
                   sess, status, fatal, issued, created, removed, calls>>

\* -------------------------------------------------------- the message router
\* What one call of Push or Response does, in order, as events
\* <<what, session, message id>>: the call itself, message.Encode,
\* Packet.Pack, and net.send, that is session.Entity.Send.
\* message.Encode and Packet.Pack are other packages: each either succeeds
\* or returns an error.
Outcomes == {"ok", "EncodeErr", "PackErr"}

\* Push: Encode; on error return it; Pack; on error return it; net.send.
PushEventsNoReturnOnPackErr(sid, o) ==
    <<<<"Push", sid, 0>>, <<"encode", sid, 0>>>>
      \o (IF o = "EncodeErr" THEN <<>>
          ELSE <<<<"pack", sid, 0>>, <<"send", sid, 0>>>>)
PushEvents(sid, o) ==
    <<<<"Push", sid, 0>>, <<"encode", sid, 0>>>>
      \o (IF o = "EncodeErr" THEN <<>> ELSE <<<<"pack", sid, 0>>>>)
      \o (IF o = "ok" THEN <<<<"send", sid, 0>>>> ELSE <<>>)

\* The error Push and Response return after Encode and Pack.
SendRet(o) == IF o = "ok" THEN "nil" ELSE o

\* net.Push(session, route, data)
PushCall(t, sid, o) ==
    /\ ~fatal
    /\ th[t].pc = "idle"
    /\ sid \in DOMAIN sess
    /\ Goto(t, [op |-> "Push", pc |-> "ret", sid |-> sid,
                ev |-> PushEvents(sid, o), ret |-> SendRet(o)])
    /\ UNCHANGED <<IsFrontend, agentUid, agentMap, acceptorUid, acceptorMap,
                   lock, sessionCloseCb, sess, status, fatal, issued, created, removed,
                   calls>>

\* The handler of the session's connection records the id of the request it
\* received, or 0 for a notify, in session.LastID.
SetLastID(sid, v) ==
    /\ ~fatal
    /\ sid \in DOMAIN sess
    /\ sess[sid] # v
    /\ sess' = [sess EXCEPT ![sid] = v]
    /\ UNCHANGED <<IsFrontend, agentUid, agentMap, acceptorUid, acceptorMap,
                   lock, sessionCloseCb, status, th, fatal, issued, created, removed,
                   calls>>

\* if session.LastID <= 0
OnNotifyOnlyNegative(lastID) == lastID < 0
OnNotify(lastID) == lastID <= 0

\* Response: the check of session.LastID; return ErrSessionOnNotify
ResponseCheck(t, sid) ==
    /\ ~fatal
    /\ th[t].pc = "idle"
    /\ sid \in DOMAIN sess
    /\ IF OnNotify(sess[sid])
       THEN Goto(t, [op |-> "Response", pc |-> "ret", sid |-> sid,
                     n |-> sess[sid], ret |-> "ErrSessionOnNotify"])
       ELSE Goto(t, [op |-> "Response", pc |-> "build", sid |-> sid,
                     n |-> sess[sid]])
    /\ UNCHANGED <<IsFrontend, agentUid, agentMap, acceptorUid, acceptorMap,
                   lock, sessionCloseCb, sess, status, fatal, issued, created, removed,
                   calls>>

\* The message of a Response: ID: session.LastID, read when it is built.
ResponseEvents(sid, id, o) ==
    <<<<"encode", sid, id>>>>
      \o (IF o = "EncodeErr" THEN <<>> ELSE <<<<"pack", sid, id>>>>)
      \o (IF o = "ok" THEN <<<<"send", sid, id>>>> ELSE <<>>)

\* Response: Encode with ID: session.LastID, Pack, net.send
ResponseSend(t, o) ==
    /\ ~fatal
    /\ th[t].op = "Response" /\ th[t].pc = "build"
    /\ Goto(t, [pc |-> "ret", id |-> sess[th[t].sid],
                ev |-> ResponseEvents(th[t].sid, sess[th[t].sid], o),
                ret |-> SendRet(o)])
    /\ UNCHANGED <<IsFrontend, agentUid, agentMap, acceptorUid, acceptorMap,
                   lock, sessionCloseCb, sess, status, fatal, issued, created, removed,
                   calls>>

\* Broadcast: if appConfig.IsFrontend { for _, s := range net.agentMap
BroadcastBegin(t) ==
    /\ ~fatal
    /\ th[t].pc = "idle"
    /\ IF IsFrontend
       THEN Goto(t, [op |-> "Broadcast", pc |-> "scan",
                     snap |-> DOMAIN agentMap])
       ELSE Goto(t, [op |-> "Broadcast", pc |-> "ret"])
    /\ UNCHANGED <<IsFrontend, agentUid, agentMap, acceptorUid, acceptorMap,
                   lock, sessionCloseCb, sess, status, fatal, issued, created, removed,
                   calls>>

\* The keys a range over the mapping may produce next: those in the mapping
\* that it has not produced yet (Go fixes no order).
RangeNext(m, seen) == DOMAIN m \ seen

\* The range is over: every key that has been in the mapping since the range
\* began is produced; a key inserted during the range may be skipped.
RangeOverEarly(m, seen, snap) == TRUE
RangeOver(m, seen, snap) == (DOMAIN m \cap snap) \subseteq seen

\* net.Push(...) as a statement: the loops of Broadcast and Multicast drop
\* the error Push returns and go on to the next target.
AfterPushStopOnError(pc, o) == IF o = "ok" THEN pc ELSE "ret"
AfterPush(pc, o) == pc

\* One iteration: net.Push(s.session, route, data), its error dropped.
BroadcastStep(t, k, o) ==
    /\ ~fatal
    /\ th[t].op = "Broadcast" /\ th[t].pc = "scan"
    /\ k \in RangeNext(agentMap, th[t].seen)
    /\ Goto(t, [pc |-> AfterPush("scan", o), seen |-> th[t].seen \cup {k},
                ev |-> th[t].ev \o PushEvents(agentMap[k], o)])
    /\ UNCHANGED <<IsFrontend, agentUid, agentMap, acceptorUid, acceptorMap,
                   lock, sessionCloseCb, sess, status, fatal, issued, created, removed,
                   calls>>

BroadcastEnd(t) ==
    /\ ~fatal
    /\ th[t].op = "Broadcast" /\ th[t].pc = "scan"
    /\ RangeOver(agentMap, th[t].seen, th[t].snap)
    /\ Goto(t, [pc |-> "ret"])
    /\ UNCHANGED <<IsFrontend, agentUid, agentMap, acceptorUid, acceptorMap,
                   lock, sessionCloseCb, sess, status, fatal, issued, created, removed,
                   calls>>

\* The id lists a caller may hand to Multicast.
IdLists ==
    UNION {[1 .. n -> 1 .. MaxAgents + 1] : n \in 0 .. MaxIds}

\* Multicast: for _, aid := range aids
MulticastBegin(t, aids) ==
    /\ ~fatal
    /\ th[t].pc = "idle"
    /\ Goto(t, [op |-> "Multicast", pc |-> "mscan", ids |-> aids, i |-> 1])
    /\ UNCHANGED <<IsFrontend, agentUid, agentMap, acceptorUid, acceptorMap,
                   lock, sessionCloseCb, sess, status, fatal, issued, created, removed,
                   calls>>

\* if agent, ok := net.agentMap[aid]; ok && agent != nil { net.Push(...) }
MulticastEventsNoLookup(m, aid, o) == PushEvents(aid, o)
MulticastEvents(m, aid, o) ==
    IF aid \in DOMAIN m /\ m[aid] # Nil THEN PushEvents(m[aid], o) ELSE <<>>

\* for _, aid := range aids: the index after index i of a list of n ids
NextIdStopAtUnknown(m, aids, i) ==
    IF aids[i] \in DOMAIN m THEN i + 1 ELSE Len(aids) + 1
NextId(m, aids, i) == i + 1

\* One iteration of Multicast's loop.
MulticastStep(t, o) ==
    /\ ~fatal
    /\ th[t].op = "Multicast" /\ th[t].pc = "mscan"
    /\ th[t].i <= Len(th[t].ids)
    /\ o = "ok" \/ th[t].ids[th[t].i] \in DOMAIN agentMap  \* no Push, no outcome
    /\ Goto(t, [pc |-> AfterPush("mscan", o),
                i |-> NextId(agentMap, th[t].ids, th[t].i),
                ev |-> th[t].ev
                         \o MulticastEvents(agentMap, th[t].ids[th[t].i], o)])
    /\ UNCHANGED <<IsFrontend, agentUid, agentMap, acceptorUid, acceptorMap,
                   lock, sessionCloseCb, sess, status, fatal, issued, created, removed,
                   calls>>

MulticastEnd(t) ==
    /\ ~fatal
    /\ th[t].op = "Multicast" /\ th[t].pc = "mscan"
    /\ th[t].i > Len(th[t].ids)
    /\ Goto(t, [pc |-> "ret"])
    /\ UNCHANGED <<IsFrontend, agentUid, agentMap, acceptorUid, acceptorMap,
                   lock, sessionCloseCb, sess, status, fatal, issued, created, removed,
                   calls>>

\* --------------------------------------------------------------- heartbeat
\* agent.status: statusWorking and the other values an agent's status takes.
Statuses == {"start", "working", "closed"}

\* The statuses an agent may take after status st: it starts, works, and is
\* closed, and never goes back.
LaterStatuses(st) ==
    IF st = "start" THEN {"working", "closed"}
    ELSE IF st = "working" THEN {"closed"} ELSE {}

\* The handler of the agent's connection moves the agent's status on.
SetStatus(sid, s) ==
    /\ ~fatal
    /\ sid \in DOMAIN status
    /\ s \in LaterStatuses(status[sid])
    /\ status' = [status EXCEPT ![sid] = s]
    /\ UNCHANGED <<IsFrontend, agentUid, agentMap, acceptorUid, acceptorMap,
                   lock, sessionCloseCb, sess, th, fatal, issued, created,
                   removed, calls>>

\* heartbeat: if !appConfig.IsFrontend || net.agentMap == nil { return }
\* (NewNetService makes the mapping and nothing sets it to nil); then the
\* range over net.agentMap begins, under no lock.
HeartbeatBegin(t) ==
    /\ ~fatal
    /\ th[t].pc = "idle"
    /\ IF IsFrontend
       THEN Goto(t, [op |-> "heartbeat", pc |-> "hscan",
                     snap |-> DOMAIN agentMap])
       ELSE Goto(t, [op |-> "heartbeat", pc |-> "ret"])
    /\ UNCHANGED <<IsFrontend, agentUid, agentMap, acceptorUid, acceptorMap,
                   lock, sessionCloseCb, sess, status, fatal, issued, created,
                   removed, calls>>

\* if session.status == statusWorking: where the iteration goes after the
\* check, to the send or on to the next agent
HeartbeatAfterCheckAnyStatus(st) == "hsend"
HeartbeatAfterCheck(st) == IF st = "working" THEN "hsend" ELSE "hscan"

\* One iteration of heartbeat's range loop: the next agent and the check of
\* its status.
HeartbeatStep(t, k) ==
    /\ ~fatal
    /\ th[t].op = "heartbeat" /\ th[t].pc = "hscan"
    /\ k \in RangeNext(agentMap, th[t].seen)
    /\ Goto(t, [seen |-> th[t].seen \cup {k}, id |-> agentMap[k],
                pc |-> HeartbeatAfterCheck(status[agentMap[k]])])
    /\ UNCHANGED <<IsFrontend, agentUid, agentMap, acceptorUid, acceptorMap,
                   lock, sessionCloseCb, sess, status, fatal, issued, created,
                   removed, calls>>

\* session.send(heartbeatPacket); session.heartbeat()
HeartbeatEvents(aid) ==
    <<<<"sendHeartbeat", aid, 0>>, <<"heartbeat", aid, 0>>>>

\* The body of the if: the send of the frame and the bookkeeping.
HeartbeatSend(t) ==
    /\ ~fatal
    /\ th[t].op = "heartbeat" /\ th[t].pc = "hsend"
    /\ Goto(t, [pc |-> "hscan", ev |-> th[t].ev \o HeartbeatEvents(th[t].id)])
    /\ UNCHANGED <<IsFrontend, agentUid, agentMap, acceptorUid, acceptorMap,
                   lock, sessionCloseCb, sess, status, fatal, issued, created,
                   removed, calls>>

HeartbeatEnd(t) ==
    /\ ~fatal
    /\ th[t].op = "heartbeat" /\ th[t].pc = "hscan"
    /\ RangeOver(agentMap, th[t].seen, th[t].snap)
    /\ Goto(t, [pc |-> "ret"])
    /\ UNCHANGED <<IsFrontend, agentUid, agentMap, acceptorUid, acceptorMap,
                   lock, sessionCloseCb, sess, status, fatal, issued, created,
                   removed, calls>>

\* The call returns to its caller.
Return(t) ==
    /\ ~fatal
    /\ th[t].pc = "ret"
    /\ th' = [th EXCEPT ![t] = Idle]
    /\ UNCHANGED <<IsFrontend, agentUid, agentMap, acceptorUid, acceptorMap,
                   lock, sessionCloseCb, sess, status, fatal, issued, created, removed, calls>>

\* --------------------------------------------------------- the stress run
\* One of the M goroutines starts one of its C createAgent calls.
CreatorCall(t) ==
    /\ calls[t] < CallsPerCreator
    /\ calls' = [calls EXCEPT ![t] = @ + 1]
    /\ CreateAgentLockUid(t)

\* NewNetService(), with the goroutines of `T` about to call it.
InitOf(T) ==
    /\ IsFrontend \in BOOLEAN
    /\ agentUid = 1
    /\ agentMap = <<>>
    /\ acceptorUid = 1
    /\ acceptorMap = <<>>
    /\ lock = [l \in LockNames |-> FreeLock]
    /\ sessionCloseCb = <<>>
    /\ sess = <<>>
    /\ status = <<>>
    /\ th = [t \in T |-> Idle]
    /\ fatal = FALSE
    /\ issued = [agent |-> <<>>, acceptor |-> <<>>]
    /\ created = [agent |-> {}, acceptor |-> {}]
    /\ removed = [agent |-> {}, acceptor |-> {}]
    /\ calls = [t \in T |-> 0]

InitCreate == InitOf(Creators)

NextCreate ==
    \E t \in Creators :
        \/ CreatorCall(t)
        \/ CreateAgentReserve(t)
        \/ CreateAgentLockMap(t)
        \/ CreateAgentInsert(t)
        \/ Return(t)

SpecCreate == InitCreate /\ [][NextCreate]_vars

\* ------------------------------------------- the registry and session close
\* createAgent calls begun so far (the model stops at MaxAgents of them).
AgentCallsBegun ==
    Len(issued.agent)
      + Cardinality({t \in DOMAIN th :
                        th[t].op = "createAgent" /\ th[t].pc = "uidLocked"})

AcceptorCallsBegun ==
    Len(issued.acceptor)
      + Cardinality({t \in DOMAIN th :
                        th[t].op = "createAcceptor" /\ th[t].pc = "uidLocked"})

CreateAgentCall(t) ==
    /\ AgentCallsBegun < MaxAgents
    /\ CreateAgentLockUid(t)
    /\ UNCHANGED calls

CreateAcceptorCall(t) ==
    /\ AcceptorCallsBegun < MaxAcceptors
    /\ CreateAcceptorLockUid(t)
    /\ UNCHANGED calls

SessionClosedCallbackCall(t, cb) ==
    /\ Len(sessionCloseCb)
         + Cardinality({u \in DOMAIN th : th[u].op = "sessionClosedCallback"
                                            /\ th[u].pc = "cbLocked"}) < MaxCb
    /\ SessionClosedCallbackLock(t, cb)

Init == InitOf(Threads)

\* The registry: both goroutines create, look up, close and remove.
Next ==
    \E t \in Threads :
        \/ CreateAgentCall(t)
        \/ CreateAgentReserve(t)
        \/ CreateAgentLockMap(t)
        \/ CreateAgentInsert(t)
        \/ CreateAcceptorCall(t)
        \/ CreateAcceptorReserve(t)
        \/ CreateAcceptorLockMap(t)
        \/ CreateAcceptorInsert(t)
        \/ \E sid \in 1 .. MaxAgents + 1 : GetAgentCall(t, sid)
        \/ \E sid \in 1 .. MaxAcceptors + 1 : GetAcceptorCall(t, sid)
        \/ RaceFatal(t)
        \/ \E sid \in 1 .. MaxAgents : CloseSessionRLockCb(t, sid)
        \/ CloseSessionRUnlockCb(t)
        \/ CloseSessionLockMap(t)
        \/ CloseSessionDelete(t)
        \/ DumpAgentsRLock(t)
        \/ DumpAgentsLog(t)
        \/ \E id \in 1 .. MaxAcceptors : RemoveAcceptorLock(t, id)
        \/ RemoveAcceptorDelete(t)
        \/ Return(t)

Spec == Init /\ [][Next]_vars

\* ------------------------------------------ session close and its callbacks
\* Both goroutines create agents, register callbacks and close sessions.
NextClose ==
    \E t \in Threads :
        \/ CreateAgentCall(t)
        \/ CreateAgentReserve(t)
        \/ CreateAgentLockMap(t)
        \/ CreateAgentInsert(t)
        \/ \E cb \in Callbacks : SessionClosedCallbackCall(t, cb)
        \/ SessionClosedCallbackAppend(t)
        \/ \E sid \in 1 .. MaxAgents : CloseSessionRLockCb(t, sid)
        \/ CloseSessionCallback(t)
        \/ CloseSessionRUnlockCb(t)
        \/ CloseSessionLockMap(t)
        \/ CloseSessionDelete(t)
        \/ DumpAgentsRLock(t)
        \/ DumpAgentsLog(t)
        \/ Return(t)

SpecClose == Init /\ [][NextClose]_vars

\* ------------------------------------------ a callback that registers
\* As above, and the callbacks registered include one that registers.
ReentrantCallbacks == {"cb1"} \cup Registering

NextReentrant ==
    \E t \in Threads :
        \/ CreateAgentCall(t)
        \/ CreateAgentReserve(t)
        \/ CreateAgentLockMap(t)
        \/ CreateAgentInsert(t)
        \/ \E cb \in ReentrantCallbacks : SessionClosedCallbackCall(t, cb)
        \/ SessionClosedCallbackAppend(t)
        \/ \E sid \in 1 .. MaxAgents : CloseSessionRLockCb(t, sid)
        \/ CloseSessionCallback(t)
        \/ CloseSessionCallbackRegisters(t)
        \/ CloseSessionRUnlockCb(t)
        \/ CloseSessionLockMap(t)
        \/ CloseSessionDelete(t)
        \/ DumpAgentsRLock(t)
        \/ DumpAgentsLog(t)
        \/ Return(t)

SpecReentrant == Init /\ [][NextReentrant]_vars

\* ------------------------------------------------ the mix of operations
\* The calls a goroutine may make: the operation and its argument.
MixCalls ==
    [op : {"createAgent", "createAcceptor", "dumpAgents"},
     sid : {0}, id : {0}, cb : {"nil"}]
      \cup [op : {"closeSession"}, sid : DOMAIN sess, id : {0}, cb : {"nil"}]
      \cup [op : {"removeAcceptor"}, sid : {0}, id : AcceptorsHandedOut,
            cb : {"nil"}]
      \cup [op : {"sessionClosedCallback"}, sid : {0}, id : {0},
            cb : {"cb1"}]

\* The calls of operation `o` that have begun and not reserved their id or
\* appended their callback yet.
Pending(o, pcs) ==
    Cardinality({u \in DOMAIN th : th[u].op = o /\ th[u].pc \in pcs})

\* The mix makes at most MixAgents, MixAcceptors and MixCb calls of the
\* operations that add to the state.
WithinBounds(c) ==
    /\ c.op = "createAgent" =>
          Len(issued.agent) + Pending(c.op, {"idle", "uidLocked"}) < MixAgents
    /\ c.op = "createAcceptor" =>
          Len(issued.acceptor) + Pending(c.op, {"idle", "uidLocked"})
             < MixAcceptors
    /\ c.op = "sessionClosedCallback" =>
          Len(sessionCloseCb) + Pending(c.op, {"idle", "cbLocked"}) < MixCb

\* A goroutine calls an operation: it is in the call, before its first lock.
Call(t, c) ==
    /\ ~fatal
    /\ th[t] = Idle
    /\ WithinBounds(c)
    /\ th' = [th EXCEPT ![t] = [Idle EXCEPT !.op = c.op, !.sid = c.sid,
                                            !.id = c.id, !.cb = c.cb]]
    /\ UNCHANGED <<IsFrontend, agentUid, agentMap, acceptorUid, acceptorMap,
                   lock, sessionCloseCb, sess, status, fatal, issued, created,
                   removed, calls>>

\* The goroutine has called operation `o` and not taken its first lock.
Called(t, o) == th[t].op = o /\ th[t].pc = "idle"

\* A step of goroutine t inside the call it has made.
MixStep(t) ==
    \/ Called(t, "createAgent") /\ CreateAgentLockUid(t) /\ UNCHANGED calls
    \/ CreateAgentReserve(t)
    \/ CreateAgentLockMap(t)
    \/ CreateAgentInsert(t)
    \/ Called(t, "createAcceptor") /\ CreateAcceptorLockUid(t)
          /\ UNCHANGED calls
    \/ CreateAcceptorReserve(t)
    \/ CreateAcceptorLockMap(t)
    \/ CreateAcceptorInsert(t)
    \/ Called(t, "closeSession") /\ CloseSessionRLockCb(t, th[t].sid)
    \/ CloseSessionCallback(t)
    \/ CloseSessionRUnlockCb(t)
    \/ CloseSessionLockMap(t)
    \/ CloseSessionDelete(t)
    \/ DumpAgentsRLock(t)
    \/ DumpAgentsLog(t)
    \/ Called(t, "removeAcceptor") /\ RemoveAcceptorLock(t, th[t].id)
    \/ RemoveAcceptorDelete(t)
    \/ Called(t, "sessionClosedCallback")
          /\ SessionClosedCallbackLock(t, th[t].cb)
    \/ SessionClosedCallbackAppend(t)
    \/ Return(t)

NextMix ==
    \E t \in Threads :
        \/ \E c \in MixCalls : Call(t, c)
        \/ MixStep(t)

\* The scheduler runs every goroutine that can run, and a goroutine waiting
\* in Lock or RLock gets the lock when it keeps coming free (Go's mutexes
\* are starvation-free); nothing makes a goroutine call an operation.
SpecMix ==
    Init /\ [][NextMix]_vars /\ \A t \in Threads : SF_vars(MixStep(t))

\* ------------------------------------------------- the router at work
\* One goroutine sends while the other creates agents and closes sessions.
Sender == "g1"
Mutator == "g2"

NextRouter ==
    \/ \E sid \in 1 .. MaxAgents, o \in Outcomes : PushCall(Sender, sid, o)
    \/ BroadcastBegin(Sender)
    \/ \E k \in 1 .. MaxAgents, o \in Outcomes : BroadcastStep(Sender, k, o)
    \/ BroadcastEnd(Sender)
    \/ \E aids \in IdLists : MulticastBegin(Sender, aids)
    \/ \E o \in Outcomes : MulticastStep(Sender, o)
    \/ MulticastEnd(Sender)
    \/ RaceFatal(Sender)
    \/ Return(Sender)
    \/ CreateAgentCall(Mutator)
    \/ CreateAgentReserve(Mutator)
    \/ CreateAgentLockMap(Mutator)
    \/ CreateAgentInsert(Mutator)
    \/ \E sid \in 1 .. MaxAgents : CloseSessionRLockCb(Mutator, sid)
    \/ CloseSessionRUnlockCb(Mutator)
    \/ CloseSessionLockMap(Mutator)
    \/ CloseSessionDelete(Mutator)
    \/ DumpAgentsRLock(Mutator)
    \/ DumpAgentsLog(Mutator)
    \/ Return(Mutator)

SpecRouter == Init /\ [][NextRouter]_vars

\* ------------------------------------------------------ Response at work
\* One goroutine responds and pushes on the sessions of the agents the other
\* creates, while the handlers of their connections set LastID.
NextResponse ==
    \/ \E sid \in 1 .. MaxAgents : ResponseCheck(Sender, sid)
    \/ \E o \in Outcomes : ResponseSend(Sender, o)
    \/ \E sid \in 1 .. MaxAgents, o \in Outcomes : PushCall(Sender, sid, o)
    \/ Return(Sender)
    \/ \E sid \in 1 .. MaxAgents, v \in 0 .. MaxLastID : SetLastID(sid, v)
    \/ CreateAgentCall(Mutator)
    \/ CreateAgentReserve(Mutator)
    \/ CreateAgentLockMap(Mutator)
    \/ CreateAgentInsert(Mutator)
    \/ Return(Mutator)

SpecResponse == Init /\ [][NextResponse]_vars

\* ------------------------------------------------------ heartbeat at work
\* One goroutine runs heartbeat while the other creates agents and closes
\* sessions, and the handlers of the connections move the agents' status.
NextHeartbeat ==
    \/ HeartbeatBegin(Sender)
    \/ \E k \in 1 .. MaxAgents : HeartbeatStep(Sender, k)
    \/ HeartbeatSend(Sender)
    \/ HeartbeatEnd(Sender)
    \/ RaceFatal(Sender)
    \/ Return(Sender)
    \/ \E sid \in 1 .. MaxAgents, s \in Statuses : SetStatus(sid, s)
    \/ CreateAgentCall(Mutator)
    \/ CreateAgentReserve(Mutator)
    \/ CreateAgentLockMap(Mutator)
    \/ CreateAgentInsert(Mutator)
    \/ \E sid \in 1 .. MaxAgents : CloseSessionRLockCb(Mutator, sid)
    \/ CloseSessionRUnlockCb(Mutator)
    \/ CloseSessionLockMap(Mutator)
    \/ CloseSessionDelete(Mutator)
    \/ DumpAgentsRLock(Mutator)
    \/ DumpAgentsLog(Mutator)
    \/ Return(Mutator)

SpecHeartbeat == Init /\ [][NextHeartbeat]_vars

\* ------------------------------------------------------------------ claims
\* The ids createAgent has handed out so far.
AgentIdsIssued == {issued.agent[k] : k \in DOMAIN issued.agent}

\* The createAgent calls the goroutines of the stress run have started.
TotalCalls ==
    LET f[k \in 0 .. NumCreators] == IF k = 0 THEN 0 ELSE f[k - 1] + calls[k]
    IN  f[NumCreators]

NoCreateInFlight == \A t \in DOMAIN th : th[t].op # "createAgent"

StressDone ==
    \A t \in DOMAIN th : th[t].pc = "idle" /\ calls[t] = CallsPerCreator

\* C1: after any N createAgent calls, however the calling goroutines
\* interleave, the ids handed out are exactly 1..N, none twice and none
\* missing, and once no call is in flight getAgent(i) succeeds for every
\* i in 1..N.
C1_IdsExactlyOneToN ==
    /\ Cardinality(AgentIdsIssued) = Len(issued.agent)
    /\ AgentIdsIssued = 1 .. Len(issued.agent)
    /\ NoCreateInFlight =>
          /\ Len(issued.agent) = TotalCalls
          /\ \A i \in 1 .. TotalCalls :
                GetAgent(agentMap, i) = [a |-> i, err |-> FALSE]

\* C1 witness: all M*C calls have returned and every lookup succeeds.
C1_Witness ==
    /\ NoCreateInFlight
    /\ TotalCalls = NumCreators * CallsPerCreator
    /\ \A i \in 1 .. TotalCalls : ~GetAgent(agentMap, i).err

\* C2: when M goroutines have each called createAgent C times and no
\* closeSession ran, the agent mapping holds exactly M*C entries, and at
\* every moment each entry's key is the id of the agent it holds.
C2_StressSizeIsMTimesC ==
    /\ \A k \in DOMAIN agentMap : agentMap[k] = k
    /\ StressDone => Cardinality(DOMAIN agentMap) = NumCreators * CallsPerCreator

\* C2 witness: the stress run is over and the mapping is full.
C2_Witness ==
    /\ StressDone
    /\ DOMAIN agentMap = 1 .. (NumCreators * CallsPerCreator)

\* ---- C3
StrictlyIncreasingFromOne(q) ==
    /\ Len(q) > 0 => q[1] = 1
    /\ \A k \in 1 .. Len(q) - 1 : q[k] < q[k + 1]

\* C3: in each namespace the ids handed out start at 1 and strictly increase,
\* so none is handed out twice, and the next id (the counter) is greater than
\* every id handed out before, those of removed entries included, whatever
\* createAgent, createAcceptor, closeSession and removeAcceptor calls ran.
C3_IdsIncreaseAndAreNeverReused ==
    /\ StrictlyIncreasingFromOne(issued.agent)
    /\ StrictlyIncreasingFromOne(issued.acceptor)
    /\ \A k \in DOMAIN issued.agent : issued.agent[k] < agentUid
    /\ \A k \in DOMAIN issued.acceptor : issued.acceptor[k] < acceptorUid
    /\ removed.agent \subseteq AgentIdsIssued
    /\ removed.acceptor \subseteq {issued.acceptor[k] : k \in DOMAIN issued.acceptor}

\* C3 witness: agent 1 and acceptor 1 are removed, and a second agent and a
\* second acceptor have got the id 2.
C3_Witness ==
    /\ 1 \in removed.agent /\ 1 \notin DOMAIN agentMap
    /\ 1 \in removed.acceptor /\ 1 \notin DOMAIN acceptorMap
    /\ issued.agent = <<1, 2>>
    /\ issued.acceptor = <<1, 2>>

\* ---- C4
\* The ids whose entry is in a mapping: inserted and not deleted since.
RegisteredAgents == created.agent \ removed.agent
RegisteredAcceptors == created.acceptor \ removed.acceptor

\* C4: a getAgent(id) or getAcceptor(id) call returns the entry when the id
\* was inserted and not removed since (an agent by closeSession on a
\* frontend, an acceptor by removeAcceptor), and NotFound with no entry for
\* every other id: never created, or removed.
C4_LookupFindsExactlyTheRegistered ==
    [][\A t \in DOMAIN th :
          /\ (th[t].pc = "idle" /\ th'[t].op = "getAgent") =>
                IF th'[t].sid \in RegisteredAgents
                THEN th'[t].ret = "found" /\ th'[t].id = th'[t].sid
                ELSE th'[t].ret = "NotFound" /\ th'[t].id = Nil
          /\ (th[t].pc = "idle" /\ th'[t].op = "getAcceptor") =>
                IF th'[t].sid \in RegisteredAcceptors
                THEN th'[t].ret = "found" /\ th'[t].id = th'[t].sid
                ELSE th'[t].ret = "NotFound" /\ th'[t].id = Nil]_vars

\* C4 witness: both goroutines have looked up ids that were removed, one an
\* agent and one an acceptor, and got NotFound, while another entry is there.
C4_Witness ==
    \E t, u \in DOMAIN th :
        /\ th[t].op = "getAgent" /\ th[t].ret = "NotFound"
        /\ th[t].sid \in created.agent \cap removed.agent
        /\ th[u].op = "getAcceptor" /\ th[u].ret = "NotFound"
        /\ th[u].sid \in created.acceptor \cap removed.acceptor
        /\ RegisteredAgents # {}

\* ---- C5
EventsOf(ev, what) == SelectSeq(ev, LAMBDA e : e[1] = what)

\* C5: Response returns ErrSessionOnNotify exactly when the LastID it checks
\* is <= 0, and then it has encoded and sent nothing; when the LastID is > 0
\* it goes on: it encodes, and unless Encode or Pack fails, packs and sends
\* once on the session.
C5_ResponseRefusesExactlyOnNotify ==
    \A t \in DOMAIN th : th[t].op = "Response" =>
        /\ th[t].pc = "build" => th[t].n > 0 /\ th[t].ev = <<>>
        /\ th[t].pc = "ret" =>
             /\ th[t].ret = "ErrSessionOnNotify" <=> th[t].n <= 0
             /\ th[t].ret = "ErrSessionOnNotify" => th[t].ev = <<>>
             /\ th[t].n > 0 =>
                  /\ Len(EventsOf(th[t].ev, "encode")) = 1
                  /\ th[t].ret = "nil" <=>
                       Len(EventsOf(th[t].ev, "send")) = 1
                  /\ \A k \in DOMAIN th[t].ev : th[t].ev[k][2] = th[t].sid

\* C5 witness: a Response on a session whose LastID is 0 has returned the error.
C5_Witness ==
    \E t \in DOMAIN th :
        /\ th[t].op = "Response" /\ th[t].pc = "ret"
        /\ th[t].ret = "ErrSessionOnNotify"
        /\ sess[th[t].sid] = 0

\* ---- C6
\* C6: Push returns nil and has sent exactly once, on its session's entity,
\* when Encode and Pack both succeed; when either fails it returns that
\* error and has sent nothing.
C6_PushSendsOnceOrNotAtAll ==
    \A t \in DOMAIN th : (th[t].op = "Push" /\ th[t].pc = "ret") =>
        /\ th[t].ret \in {"nil", "EncodeErr", "PackErr"}
        /\ th[t].ret = "nil" =>
             EventsOf(th[t].ev, "send") = <<<<"send", th[t].sid, 0>>>>
        /\ th[t].ret # "nil" => EventsOf(th[t].ev, "send") = <<>>
        /\ th[t].ret = "EncodeErr" => EventsOf(th[t].ev, "pack") = <<>>
        /\ th[t].ret = "PackErr" => Len(EventsOf(th[t].ev, "pack")) = 1

\* C6 witness: a Push whose Pack failed has returned the error.
C6_Witness ==
    \E t \in DOMAIN th :
        /\ th[t].op = "Push" /\ th[t].pc = "ret" /\ th[t].ret = "PackErr"
        /\ EventsOf(th[t].ev, "send") = <<>>

\* ---- C7
\* The sessions Push was invoked on, in order.
PushTargets(ev) ==
    LET p == EventsOf(ev, "Push") IN [k \in 1 .. Len(p) |-> p[k][2]]

Range(q) == {q[k] : k \in DOMAIN q}

\* C7: on a backend Broadcast returns at once, with no Push and no send.  On
\* a frontend every iteration invokes Push on one agent that is registered at
\* that moment and was not pushed to before in this call, and when Broadcast
\* returns, every agent registered from its start to its end has been pushed
\* to: exactly once for each registered agent, and for no other session.
C7_BroadcastPushesOncePerRegisteredAgent ==
    [][\A t \in DOMAIN th :
          /\ (th[t].pc = "idle" /\ th'[t].op = "Broadcast") =>
                /\ th'[t].ev = <<>>
                /\ th'[t].pc = IF IsFrontend THEN "scan" ELSE "ret"
          /\ (th[t].op = "Broadcast" /\ th[t].pc = "scan"
                /\ th'[t].ev # th[t].ev) =>
                \E k \in RegisteredAgents \ Range(PushTargets(th[t].ev)) :
                    /\ PushTargets(th'[t].ev) = Append(PushTargets(th[t].ev), k)
                    /\ \A j \in Len(th[t].ev) + 1 .. Len(th'[t].ev) :
                          th'[t].ev[j][2] = k
                    /\ SubSeq(th'[t].ev, 1, Len(th[t].ev)) = th[t].ev
          /\ (th[t].op = "Broadcast" /\ th[t].pc = "scan"
                /\ th'[t].pc = "ret") =>
                (RegisteredAgents \cap th[t].snap)
                    \subseteq Range(PushTargets(th'[t].ev))]_vars

\* C7 witness: a Broadcast on a frontend has returned after a Push to each of
\* the two registered agents.
C7_Witness ==
    \E t \in DOMAIN th :
        /\ th[t].op = "Broadcast" /\ th[t].pc = "ret" /\ IsFrontend
        /\ Len(PushTargets(th[t].ev)) = 2
        /\ Range(PushTargets(th[t].ev)) = DOMAIN agentMap

\* ---- C8
\* C8: in Broadcast and Multicast an iteration whose Push fails leaves the
\* call in its loop, with no error to report and the next target to come;
\* and the loop ends only when every target of the scan had its iteration:
\* every id of the list for Multicast, every agent registered since the start
\* for Broadcast.
C8_FailedPushDoesNotStopTheFanOut ==
    [][\A t \in DOMAIN th :
          (th[t].op \in {"Broadcast", "Multicast"}
             /\ th[t].pc \in {"scan", "mscan"}) =>
             /\ (Len(th'[t].ev) > Len(th[t].ev)
                   /\ th'[t].ev[Len(th'[t].ev)][1] # "send") =>
                   /\ th'[t].pc = th[t].pc
                   /\ th'[t].ret = "none"
                   /\ th[t].op = "Multicast" => th'[t].i = th[t].i + 1
                   /\ th[t].op = "Broadcast" =>
                        th'[t].seen = Range(PushTargets(th'[t].ev))
             /\ th'[t].pc = "ret" =>
                   /\ th'[t].ret = "none"
                   /\ th'[t].ev = th[t].ev
                   /\ th[t].op = "Multicast" => th[t].i = Len(th[t].ids) + 1
                   /\ th[t].op = "Broadcast" =>
                        (DOMAIN agentMap \cap th[t].snap)
                            \subseteq Range(PushTargets(th[t].ev))]_vars

\* C8 witness: a Broadcast has returned whose first Push failed and whose
\* second Push sent.
C8_Witness ==
    \E t \in DOMAIN th :
        /\ th[t].op = "Broadcast" /\ th[t].pc = "ret" /\ th[t].ret = "none"
        /\ Len(PushTargets(th[t].ev)) = 2
        /\ th[t].ev[3][1] = "Push"
        /\ th[t].ev[Len(th[t].ev)][1] = "send"

\* ---- C9
\* C9: Multicast takes the ids in their order, one per iteration: for an id
\* that is registered it invokes Push once, on that agent's session; for an
\* id that is not, it does nothing; either way it goes on to the next id,
\* and it returns, with no error, only after the last id.
C9_MulticastPushesTheRegisteredIdsInOrder ==
    [][\A t \in DOMAIN th :
          /\ (th[t].pc = "idle" /\ th'[t].op = "Multicast") =>
                th'[t].ev = <<>> /\ th'[t].i = 1 /\ th'[t].pc = "mscan"
          /\ (th[t].op = "Multicast" /\ th[t].pc = "mscan"
                /\ th'[t] # th[t]) =>
                IF th[t].i <= Len(th[t].ids)
                THEN /\ th'[t].i = th[t].i + 1
                     /\ th'[t].pc = "mscan"
                     /\ th'[t].ids = th[t].ids
                     /\ SubSeq(th'[t].ev, 1, Len(th[t].ev)) = th[t].ev
                     /\ IF th[t].ids[th[t].i] \in RegisteredAgents
                        THEN /\ PushTargets(th'[t].ev) =
                                  Append(PushTargets(th[t].ev),
                                         th[t].ids[th[t].i])
                             /\ \A j \in Len(th[t].ev) + 1 .. Len(th'[t].ev) :
                                   th'[t].ev[j][2] = th[t].ids[th[t].i]
                        ELSE th'[t].ev = th[t].ev
                ELSE /\ th'[t].pc = "ret"
                     /\ th'[t].ret = "none"
                     /\ th'[t].ev = th[t].ev]_vars

\* C9 witness: Multicast([unknown id, registered id]) has returned after one
\* Push, to the registered id, which sent.
C9_Witness ==
    \E t \in DOMAIN th :
        /\ th[t].op = "Multicast" /\ th[t].pc = "ret"
        /\ Len(th[t].ids) = 2
        /\ th[t].ids[1] \notin created.agent
        /\ PushTargets(th[t].ev) = <<th[t].ids[2]>>
        /\ Len(EventsOf(th[t].ev, "send")) = 1

\* ---- C10
\* The invocations a traversal of the callbacks `q` makes for session sid.
Invocations(q, sid) ==
    LET f == SelectSeq(q, LAMBDA c : c # "nil")
    IN  [k \in 1 .. Len(f) |-> <<f[k], sid>>]

\* C10: a closeSession(session) call invokes the callbacks registered before
\* it, each once, with that session, in registration order, the nil entries
\* skipped; no registration changes the list while the call traverses it.
\* It is so in every close call, the second of a session like the first.
C10_CloseInvokesEveryCallbackOnceInOrder ==
    \A t \in DOMAIN th : th[t].op = "closeSession" =>
        IF th[t].pc = "cbLoop"
        THEN /\ th[t].n = Len(sessionCloseCb)
             /\ th[t].i <= th[t].n + 1
             /\ th[t].ev =
                  Invocations(SubSeq(sessionCloseCb, 1, th[t].i - 1), th[t].sid)
        ELSE /\ th[t].n <= Len(sessionCloseCb)
             /\ th[t].ev =
                  Invocations(SubSeq(sessionCloseCb, 1, th[t].n), th[t].sid)

\* C10 witness: a close has returned after it skipped the nil entry and
\* invoked the one function registered after it.
C10_Witness ==
    \E t \in DOMAIN th :
        /\ th[t].op = "closeSession" /\ th[t].pc = "ret"
        /\ th[t].n = 2
        /\ sessionCloseCb[1] = "nil" /\ sessionCloseCb[2] # "nil"
        /\ th[t].ev = <<<<sessionCloseCb[2], th[t].sid>>>>

\* ---- C11
\* C11: on a frontend the removal step of closeSession(session) deletes the
\* entry keyed by the session's id and leaves every other entry as it was;
\* when that id is already absent it leaves the mapping as it was; and from
\* then on, through the return of the call, the id is not in the mapping.  So
\* a second closeSession on the same session removes nothing.
C11_CloseRemovesExactlyTheSessionsAgent ==
    [][\A t \in DOMAIN th :
          (IsFrontend /\ th[t].op = "closeSession") =>
             /\ (th[t].pc = "mapLocked" /\ th'[t].pc # "mapLocked") =>
                   /\ th[t].sid \notin DOMAIN agentMap'
                   /\ DOMAIN agentMap' = DOMAIN agentMap \ {th[t].sid}
                   /\ \A k \in DOMAIN agentMap' : agentMap'[k] = agentMap[k]
                   /\ th[t].sid \notin DOMAIN agentMap => agentMap' = agentMap
             /\ th'[t].pc \in {"wantDump", "dumping", "ret"} =>
                   th[t].sid \notin DOMAIN agentMap']_vars

\* C11 witness: on a frontend both goroutines have closed the same session
\* and returned, and the other agent is still registered.
C11_Witness ==
    /\ IsFrontend
    /\ \A t \in DOMAIN th : th[t].op = "closeSession" /\ th[t].pc = "ret"
    /\ \A t, u \in DOMAIN th : th[t].sid = th[u].sid
    /\ \E t \in DOMAIN th :
           /\ th[t].sid \notin DOMAIN agentMap
           /\ DOMAIN agentMap = created.agent \ {th[t].sid}
           /\ DOMAIN agentMap # {}

\* ---- C12
\* C12: no step of a closeSession call changes the acceptor mapping, agentUid
\* or acceptorUid, and on a backend none changes the agent mapping; and a key
\* leaves the acceptor mapping only in the delete of a removeAcceptor call
\* for that key.
C12_CloseLeavesAcceptorsAndCountersAlone ==
    [][/\ \A t \in DOMAIN th :
             (th'[t] # th[t]
                /\ (th[t].op = "closeSession" \/ th'[t].op = "closeSession")) =>
                /\ acceptorMap' = acceptorMap
                /\ agentUid' = agentUid
                /\ acceptorUid' = acceptorUid
                /\ ~IsFrontend => agentMap' = agentMap
       /\ \A k \in DOMAIN acceptorMap \ DOMAIN acceptorMap' :
             \E t \in DOMAIN th :
                 /\ th[t].op = "removeAcceptor" /\ th[t].id = k
                 /\ th[t].pc = "mapLocked" /\ th'[t].pc = "ret"]_vars

\* C12 witness: on a backend a closeSession has returned and its session's
\* agent is still registered, as is an acceptor, while another acceptor was
\* removed by removeAcceptor.
C12_Witness ==
    /\ ~IsFrontend
    /\ \E t \in DOMAIN th :
           /\ th[t].op = "closeSession" /\ th[t].pc = "ret"
           /\ th[t].sid \in DOMAIN agentMap
    /\ DOMAIN acceptorMap # {}
    /\ removed.acceptor # {}

\* ---- C13
\* C13: the delete of removeAcceptor(a) takes exactly the key a.id out of the
\* acceptor mapping, every other entry and acceptorUid staying as they were;
\* when a.id is already absent the mapping stays as it was, so that a second
\* call gives the mapping of the first.
C13_RemoveAcceptorIsExactAndIdempotent ==
    [][\A t \in DOMAIN th :
          (th[t].op = "removeAcceptor" /\ th[t].pc = "mapLocked"
             /\ th'[t].pc = "ret") =>
             /\ DOMAIN acceptorMap' = DOMAIN acceptorMap \ {th[t].id}
             /\ \A k \in DOMAIN acceptorMap' : acceptorMap'[k] = acceptorMap[k]
             /\ acceptorUid' = acceptorUid
             /\ th[t].id \notin DOMAIN acceptorMap => acceptorMap' = acceptorMap
             /\ DeleteAcceptor(acceptorMap', th[t].id) = acceptorMap']_vars

\* C13 witness: both goroutines have removed the same acceptor and returned,
\* and the other acceptor is still registered.
C13_Witness ==
    /\ \A t \in DOMAIN th : th[t].op = "removeAcceptor" /\ th[t].pc = "ret"
    /\ \A t, u \in DOMAIN th : th[t].id = th[u].id
    /\ \E t \in DOMAIN th :
           /\ DOMAIN acceptorMap = created.acceptor \ {th[t].id}
           /\ DOMAIN acceptorMap # {}

\* ---- C14
\* The agents heartbeat has sent the frame to, in order.
HeartbeatTargets(ev) ==
    LET p == EventsOf(ev, "sendHeartbeat") IN [k \in 1 .. Len(p) |-> p[k][2]]

\* C14: on a backend heartbeat returns at once and has sent nothing.  On a
\* frontend every iteration takes one registered agent not taken before in
\* this call and checks its status: when that is working it sends the
\* heartbeat frame to that agent once and then runs its heartbeat
\* bookkeeping; when it is not, it does neither and goes on; and heartbeat
\* returns only when every agent registered from its start to its end had
\* its iteration.
C14_HeartbeatOnlyToWorkingAgents ==
    [][\A t \in DOMAIN th :
          /\ (th[t].pc = "idle" /\ th'[t].op = "heartbeat") =>
                /\ th'[t].ev = <<>> /\ th'[t].seen = {}
                /\ th'[t].pc = IF IsFrontend THEN "hscan" ELSE "ret"
          /\ (th[t].op = "heartbeat" /\ th[t].pc = "hscan"
                /\ th'[t].pc # "ret" /\ th'[t] # th[t]) =>
                \E k \in RegisteredAgents \ th[t].seen :
                    /\ th'[t].seen = th[t].seen \cup {k}
                    /\ th'[t].id = k
                    /\ th'[t].ev = th[t].ev
                    /\ th'[t].pc =
                          IF status[k] = "working" THEN "hsend" ELSE "hscan"
          /\ (th[t].op = "heartbeat" /\ th[t].pc = "hsend"
                /\ th'[t] # th[t]) =>
                /\ th'[t].ev = th[t].ev \o <<<<"sendHeartbeat", th[t].id, 0>>,
                                              <<"heartbeat", th[t].id, 0>>>>
                /\ th'[t].seen = th[t].seen
                /\ th'[t].pc = "hscan"
          /\ (th[t].op = "heartbeat" /\ th[t].pc = "hscan"
                /\ th'[t].pc = "ret") =>
                /\ th'[t].ev = th[t].ev
                /\ (RegisteredAgents \cap th[t].snap) \subseteq th[t].seen
                /\ Range(HeartbeatTargets(th[t].ev)) \subseteq th[t].seen
                /\ Cardinality(Range(HeartbeatTargets(th[t].ev)))
                      = Len(HeartbeatTargets(th[t].ev))]_vars

\* C14 witness: a heartbeat on a frontend has returned after it took both
\* registered agents, sent the frame to the one that is working and ran its
\* bookkeeping, and did nothing for the other, which is closed.
C14_Witness ==
    \E t \in DOMAIN th : \E k \in DOMAIN agentMap :
        /\ th[t].op = "heartbeat" /\ th[t].pc = "ret" /\ IsFrontend
        /\ th[t].seen = DOMAIN agentMap
        /\ Cardinality(th[t].seen) = 2
        /\ th[t].ev = <<<<"sendHeartbeat", k, 0>>, <<"heartbeat", k, 0>>>>
        /\ status[k] = "working"
        /\ \A j \in DOMAIN agentMap \ {k} : status[j] = "closed"

\* ---- C15
\* A goroutine is inside a scan of the agent mapping: the loops of Broadcast,
\* Multicast and heartbeat, and the dump.
Scanning(c) == c.pc \in {"scan", "mscan", "hscan", "hsend", "dumping"}

\* C15: while a goroutine is inside a scan of the agent mapping (Broadcast,
\* Multicast, heartbeat, dumpAgents), from its start to its end, no step of
\* another goroutine changes the mapping: no insert of createAgent and no
\* delete of closeSession.  (It is what holding the read side of
\* agentMapLock for the whole scan gives.)
C15_NoWriteDuringAScan ==
    [][\A t \in DOMAIN th :
          (Scanning(th[t]) /\ Scanning(th'[t])) => agentMap' = agentMap]_vars

\* ---- C16
\* The ids createAgent has reserved and not inserted yet.
ReservedNotInserted == AgentIdsIssued \ created.agent

\* C16: getAgent and getAcceptor read the mapping under its lock, so that
\* no lookup reads it while another goroutine is inside its write of the
\* mapping (the insert of a create, the delete of closeSession or
\* removeAcceptor); and a lookup of an id that createAgent has reserved and
\* not inserted yet returns NotFound and no entry.
C16_LookupsReadUnderTheLock ==
    [][\A t \in DOMAIN th :
          /\ (th[t].pc = "idle" /\ th'[t].op = "getAgent") =>
                /\ lock["agentMapLock"].w = {}
                /\ th'[t].sid \in ReservedNotInserted =>
                      th'[t].ret = "NotFound" /\ th'[t].id = Nil
          /\ (th[t].pc = "idle" /\ th'[t].op = "getAcceptor") =>
                lock["acceptorMapLock"].w = {}]_vars

\* ---- C18
\* C18: every message a Response call sends carries the session's LastID as
\* its id, and that id is greater than 0, also when session.LastID changes
\* between the call's check of it and the building of the message.
C18_ResponseSendsAPositiveLastID ==
    \A t \in DOMAIN th : th[t].op = "Response" =>
        \A k \in DOMAIN th[t].ev :
            th[t].ev[k][1] = "send" =>
               /\ th[t].ev[k][3] = th[t].id
               /\ th[t].ev[k][3] > 0

\* ---- C17
\* A closeSession call is traversing the callback list.
Traversing(c) == c.op = "closeSession" /\ c.pc \in {"cbLoop", "inCb"}

\* C17: the callback list does not change, and no goroutine is inside the
\* append of sessionClosedCallback, while a closeSession call traverses the
\* list; and a goroutine whose closeSession has invoked a callback that calls
\* sessionClosedCallback stays there for ever: it never appends, never
\* returns from the callback or from closeSession, and never gets to the
\* removal of the agent.
C17_RegistrationWaitsForTraversals ==
    [][/\ (\E u \in DOMAIN th : Traversing(th[u])) =>
             /\ sessionCloseCb' = sessionCloseCb
             /\ \A t \in DOMAIN th :
                   th[t].pc \notin {"cbLocked", "cbLockedInCb"}
       /\ \A t \in DOMAIN th :
             th[t].pc = "inCb" =>
                /\ th'[t] = th[t]
                /\ t \in lock'["sessionCloseCbLock"].r
                /\ lock'["sessionCloseCbLock"].w = {}]_vars

\* C17 witness: on a frontend a closeSession is inside a callback that
\* registers, with room in the list and its agent still registered, and so
\* is the other goroutine's closeSession of the other session.
C17_Witness ==
    /\ IsFrontend
    /\ Len(sessionCloseCb) < MaxCb
    /\ \A t \in DOMAIN th :
           /\ th[t].op = "closeSession" /\ th[t].pc = "inCb"
           /\ th[t].sid \in DOMAIN agentMap
           /\ t \in lock["sessionCloseCbLock"].r
    /\ \E t, u \in DOMAIN th : th[t].sid # th[u].sid

\* ---- C19
\* The locks goroutine t holds, either side.
LocksHeld(t) == {l \in LockNames : t \in lock[l].w \cup lock[l].r}

\* C19: a closeSession call invokes callbacks only inside its loop, under the
\* read lock, and at each invocation the session's agent is registered or a
\* close has removed it before; on a frontend the call takes agentMapLock
\* for its removal only when every callback registered at its start has run
\* and returned and the read lock is released, and it invokes none after;
\* and no createAgent or createAcceptor call invokes a callback.
C19_CallbacksRunBeforeTheRemoval ==
    [][\A t \in DOMAIN th :
          /\ th'[t].op \in {"createAgent", "createAcceptor"} =>
                th'[t].ev = <<>>
          /\ (th[t].op = "closeSession" /\ th'[t].ev # th[t].ev
                /\ th'[t].op = "closeSession") =>
                /\ th[t].pc = "cbLoop" /\ th'[t].pc = "cbLoop"
                /\ t \in lock["sessionCloseCbLock"].r
                /\ th[t].sid \in DOMAIN agentMap
                      \/ th[t].sid \in removed.agent
                /\ agentMap' = agentMap
          /\ (th[t].op = "closeSession" /\ th'[t].pc = "mapLocked"
                /\ th[t].pc # "mapLocked") =>
                /\ IsFrontend
                /\ th[t].ev =
                     Invocations(SubSeq(sessionCloseCb, 1, th[t].n), th[t].sid)
                /\ LocksHeld(t) = {}
          /\ (th[t].op = "closeSession" /\ th'[t] # th[t]
                /\ agentMap' # agentMap) =>
                /\ th[t].pc = "mapLocked"
                /\ th[t].ev =
                     Invocations(SubSeq(sessionCloseCb, 1, th[t].n), th[t].sid)]_vars

\* C19 witness: on a frontend a closeSession is at its removal, the agent
\* still registered, after its invocation of the registered callback.
C19_Witness ==
    \E t \in DOMAIN th :
        /\ IsFrontend
        /\ th[t].op = "closeSession" /\ th[t].pc = "mapLocked"
        /\ th[t].sid \in DOMAIN agentMap
        /\ th[t].ev = <<<<"cb1", th[t].sid>>>>
        /\ acceptorMap # <<>>

\* ---- C20
InCall(t) == th[t].op # "idle"

\* C20: no goroutine ever holds two of the five locks; whenever a goroutine
\* is in a call, some goroutine in a call can take a step (no deadlock); and
\* every call of createAgent, createAcceptor, closeSession, removeAcceptor,
\* sessionClosedCallback and dumpAgents, in any concurrent mix, with
\* callbacks that return and do not register, returns in the end.
C20_OneLockAtATimeAndEveryCallReturns ==
    /\ [](\A t \in Threads : Cardinality(LocksHeld(t)) <= 1)
    /\ []((\E t \in Threads : InCall(t)) =>
             \E t \in Threads : InCall(t) /\ ENABLED MixStep(t))
    /\ \A t \in Threads : InCall(t) ~> ~InCall(t)

\* C20 witness: a closeSession, its callback invoked and the callback lock
\* released, holds agentMapLock for its delete, while the other goroutine has
\* called an operation that needs that lock and waits for it.
C20_Witness ==
    \E t, u \in DOMAIN th :
        /\ th[u].op = "closeSession" /\ th[u].pc = "mapLocked"
        /\ th[u].ev # <<>>
        /\ LocksHeld(u) = {"agentMapLock"}
        /\ Called(t, "dumpAgents") \/ Called(t, "closeSession")
              \/ (th[t].op = "createAgent" /\ th[t].pc = "reserved")
        /\ LocksHeld(t) = {}
        /\ acceptorMap # <<>>

====
